---- MODULE Spec2Model ----
(***************************************************************************)
(* A model of stock_analyzer.py: the interactive main loop (menu walk,     *)
(* symbol check, fetch, dispatch to an analysis handler) and the numeric   *)
(* handlers (summary statistics, daily yields, Sharpe metric, alpha/beta   *)
(* regression).                                                            *)
(*                                                                         *)
(* Numbers are exact: a float is a record [k, n, d] that is either the     *)
(* rational n/d in lowest terms (k = "num"), not-a-number (k = "nan") or a *)
(* signed infinity (k = "inf", n = +1 or -1).  A standard deviation is the *)
(* square root of a rational and is kept as that root (k = "root").        *)
(* Rounding of IEEE doubles is not modelled.                               *)
(*                                                                         *)
(* The dates typed by the user only select what the external provider      *)
(* returns; the provider's answer is drawn nondeterministically, so the    *)
(* dates themselves are not part of the state.                             *)
(***************************************************************************)
EXTENDS Integers, Sequences, FiniteSets, TLC

\* Longest price series the provider returns in the model.
MaxLen == 3
\* Largest adjusted closing price in the model; prices are 1..MaxPrice.
MaxPrice == 2

VARIABLES
    pc,             \* position of the program
    menu_itr,       \* get_choice_path: the menu level being prompted
    choice_path,    \* get_choice_path: the choices accumulated so far
    choice,         \* the last line read by get_choice_path
    symbol,         \* main: the stock symbol typed by the user
    data,           \* analyze_stock: the fetched adjusted closing prices
    benchmark_data, \* calculate_alpha_beta: the fetched SPY prices
    daily_yields,   \* the daily-yield Series a handler derived
    result,         \* what the last handler computed (stats / s / coeff)
    out,            \* the last thing printed
    exc             \* the exception that ended the program, or "none"

vars == <<pc, menu_itr, choice_path, choice, symbol, data, benchmark_data,
          daily_yields, result, out, exc>>

----------------------------------------------------------------------------
(* Exact arithmetic on floats *)

Abs(x) == IF x < 0 THEN -x ELSE x

RECURSIVE GCD(_, _)
GCD(a, b) == IF b = 0 THEN a ELSE GCD(b, a % b)

NaN == [k |-> "nan", n |-> 0, d |-> 0]
Inf(s) == [k |-> "inf", n |-> s, d |-> 0]

\* The rational n/d, d > 0, in lowest terms.
Num(n, d) ==
    LET g == GCD(Abs(n), d)
    IN  [k |-> "num", n |-> n \div g, d |-> d \div g]

Zero == Num(0, 1)
One == Num(1, 1)

IsNum(x) == x.k = "num"
IsNaN(x) == x.k = "nan"

Sign(i) == IF i > 0 THEN 1 ELSE IF i < 0 THEN -1 ELSE 0

FNeg(x) == IF IsNum(x) THEN Num(-x.n, x.d) ELSE IF IsNaN(x) THEN NaN ELSE Inf(-x.n)

FAdd(x, y) ==
    IF IsNaN(x) \/ IsNaN(y) THEN NaN
    ELSE IF IsNum(x) /\ IsNum(y) THEN Num(x.n * y.d + y.n * x.d, x.d * y.d)
    ELSE IF IsNum(x) THEN y
    ELSE IF IsNum(y) THEN x
    ELSE IF x.n = y.n THEN x ELSE NaN

FSub(x, y) == FAdd(x, FNeg(y))

FMul(x, y) ==
    IF IsNaN(x) \/ IsNaN(y) THEN NaN
    ELSE IF IsNum(x) /\ IsNum(y) THEN Num(x.n * y.n, x.d * y.d)
    ELSE IF Sign(x.n) * Sign(y.n) = 0 THEN NaN
    ELSE Inf(Sign(x.n) * Sign(y.n))

\* numpy float64 division: x/0 is a signed infinity, 0/0 is nan; no exception.
FDiv(x, y) ==
    IF IsNaN(x) \/ IsNaN(y) THEN NaN
    ELSE IF IsNum(x) /\ IsNum(y) THEN
        IF y.n = 0 THEN (IF x.n = 0 THEN NaN ELSE Inf(Sign(x.n)))
        ELSE Num(x.n * y.d * Sign(y.n), x.d * Abs(y.n))
    ELSE IF IsNum(x) THEN Zero
    ELSE IF IsNum(y) THEN (IF y.n < 0 THEN Inf(-x.n) ELSE x)
    ELSE NaN

\* x <= y as IEEE compares: false when either side is nan.
FLe(x, y) ==
    IF IsNaN(x) \/ IsNaN(y) THEN FALSE
    ELSE IF IsNum(x) /\ IsNum(y) THEN x.n * y.d <= y.n * x.d
    ELSE IF IsNum(x) THEN y.n > 0
    ELSE IF IsNum(y) THEN x.n < 0
    ELSE x.n <= y.n

\* The square root of a float, kept symbolically: [k |-> "root"] of n/d.
FSqrt(x) ==
    IF IsNum(x) /\ x.n >= 0 THEN [k |-> "root", n |-> x.n, d |-> x.d]
    ELSE IF x.k = "inf" /\ x.n > 0 THEN x
    ELSE NaN

\* average / std_dev where std_dev is a root: a quotient [k |-> "quot"]
\* meaning (n/d) / sqrt(rn/rd), or inf / nan when the root is zero.
FDivRoot(x, r) ==
    IF IsNaN(x) \/ IsNaN(r) THEN NaN
    ELSE IF r.k = "inf" THEN (IF IsNum(x) THEN Zero ELSE NaN)
    ELSE IF ~IsNum(x) THEN x
    ELSE IF r.n = 0 THEN (IF x.n = 0 THEN NaN ELSE Inf(Sign(x.n)))
    ELSE [k |-> "quot", n |-> x.n, d |-> x.d, rn |-> r.n, rd |-> r.d]

RECURSIVE FSum(_)
FSum(s) == IF s = <<>> THEN Zero ELSE FAdd(Head(s), FSum(Tail(s)))

----------------------------------------------------------------------------
(* numpy arrays and pandas Series: [type, v] with v the sequence of values *)

NdArray(v) == [type |-> "ndarray", v |-> v]
Series(v) == [type |-> "Series", v |-> v]

\* data['Adj Close']: the adjusted-close column of the fetched frame.
AdjClose(frame) == Series([i \in 1..Len(frame) |-> Num(frame[i], 1)])

\* Series.to_numpy()
ToNumpy(ser) == NdArray(ser.v)

\* Series.pct_change(): element i is v[i]/v[i-1] - 1; the first is nan.
PctChange(ser) ==
    Series([i \in 1..Len(ser.v) |->
               IF i = 1 THEN NaN
               ELSE FSub(FDiv(ser.v[i], ser.v[i - 1]), One)])

\* Faulty variant of DropFirst: the undefined first element is kept.
DropFirstKeepsAll(ser) == ser

\* ser[1:]
DropFirst(ser) == Series(IF ser.v = <<>> THEN <<>> ELSE Tail(ser.v))

\* The daily-yield series every handler derives: pct_change()[1:].
DailyYields(frame) == DropFirst(PctChange(AdjClose(frame)))

\* pandas reductions skip nan (skipna=True); numpy reductions do not.
Observed(arr) ==
    IF arr.type = "Series" THEN SelectSeq(arr.v, LAMBDA x : ~IsNaN(x)) ELSE arr.v

\* arr.mean(): nan on no observations (numpy warns, it does not raise).
Mean(arr) ==
    LET v == Observed(arr)
    IN  IF v = <<>> THEN NaN ELSE FDiv(FSum(v), Num(Len(v), 1))

\* Delta degrees of freedom of arr.std(): numpy divides by N, pandas by N-1.
Ddof(arr) == IF arr.type = "ndarray" THEN 0 ELSE 1

\* arr.std(): sqrt(sum((x - mean)^2) / (N - ddof)); nan when N <= ddof.
Std(arr) ==
    LET v == Observed(arr)
        m == Mean(arr)
        sq == [i \in 1..Len(v) |-> FMul(FSub(v[i], m), FSub(v[i], m))]
    IN  IF Len(v) <= Ddof(arr) THEN NaN
        ELSE FSqrt(FDiv(FSum(sq), Num(Len(v) - Ddof(arr), 1)))

RECURSIVE FMaxSeq(_)
FMaxSeq(v) ==
    IF Len(v) = 1 THEN Head(v)
    ELSE LET r == FMaxSeq(Tail(v))
         IN  IF IsNaN(Head(v)) \/ IsNaN(r) THEN NaN
             ELSE IF FLe(r, Head(v)) THEN Head(v) ELSE r

RECURSIVE FMinSeq(_)
FMinSeq(v) ==
    IF Len(v) = 1 THEN Head(v)
    ELSE LET r == FMinSeq(Tail(v))
         IN  IF IsNaN(Head(v)) \/ IsNaN(r) THEN NaN
             ELSE IF FLe(Head(v), r) THEN Head(v) ELSE r

\* arr.max() / arr.min(): numpy raises ValueError on a zero-size array,
\* pandas returns nan on an empty Series.
RaisesOnEmpty(arr) == arr.type = "ndarray" /\ arr.v = <<>>

Max(arr) == IF Observed(arr) = <<>> THEN NaN ELSE FMaxSeq(Observed(arr))
Min(arr) == IF Observed(arr) = <<>> THEN NaN ELSE FMinSeq(Observed(arr))

\* get_stats(arr): (average, std_dev, maximum, minimum), or the exception
\* raised on the way.
get_stats(arr) ==
    IF RaisesOnEmpty(arr)
    THEN [exc |-> "ValueError", stats |-> <<>>]
    ELSE [exc |-> "none", stats |-> <<Mean(arr), Std(arr), Max(arr), Min(arr)>>]


----------------------------------------------------------------------------
(* statsmodels: add_constant and the ordinary-least-squares fit *)

\* The column is constant and not zero (add_trend's safe_is_const; an empty
\* column is not constant).
IsNonZeroConst(x) ==
    /\ x.v # <<>>
    /\ FLe(FMaxSeq(x.v), FMinSeq(x.v))
    /\ \E i \in 1..Len(x.v) : x.v[i] # Zero

\* sm.add_constant(X): prepends a column of ones, unless X already holds a
\* non-zero constant column (has_constant='skip'), which leaves X as it is.
add_constant(x) == [const |-> ~IsNonZeroConst(x), x |-> x.v]

Dot(u, v) == FSum([i \in 1..Len(u) |-> FMul(u[i], v[i])])

\* Faulty variant of OLSParams2: slope and intercept swapped in the result.
OLSParams2Swapped(y, x) ==
    LET n == Num(Len(x), 1)
        sx == FSum(x)
        sy == FSum(y)
        sxx == Dot(x, x)
        sxy == Dot(x, y)
        det == FSub(FMul(n, sxx), FMul(sx, sx))
    IN  IF det = Zero THEN <<Zero, FDiv(sy, n)>>
        ELSE <<FDiv(FSub(FMul(n, sxy), FMul(sx, sy)), det),
               FDiv(FSub(FMul(sy, sxx), FMul(sx, sxy)), det)>>

\* The least-squares parameters (const, slope) of y on the columns [1, x]:
\* the solution of the normal equations (X'X) b = X'y; when the columns are
\* dependent (x is all zero) the pseudo-inverse gives the minimum-norm
\* solution (mean(y), 0).
OLSParams2(y, x) ==
    LET n == Num(Len(x), 1)
        sx == FSum(x)
        sy == FSum(y)
        sxx == Dot(x, x)
        sxy == Dot(x, y)
        det == FSub(FMul(n, sxx), FMul(sx, sx))
    IN  IF det = Zero THEN <<FDiv(sy, n), Zero>>
        ELSE <<FDiv(FSub(FMul(sy, sxx), FMul(sx, sxy)), det),
               FDiv(FSub(FMul(n, sxy), FMul(sx, sy)), det)>>

\* The least-squares parameter of y on the single column x (no constant).
OLSParams1(y, x) == <<FDiv(Dot(x, y), Dot(x, x))>>

\* sm.OLS(Y, X).fit().params, or the exception raised: the data check
\* rejects series of different sizes, the fit rejects zero-size arrays.
OLSFit(y, design) ==
    IF Len(y.v) # Len(design.x) \/ Len(y.v) = 0
    THEN [exc |-> "ValueError", params |-> <<>>]
    ELSE [exc |-> "none",
          params |-> IF design.const THEN OLSParams2(y.v, design.x)
                     ELSE OLSParams1(y.v, design.x)]

\* calculate_alpha_beta(data, ...) given the fetched benchmark frame:
\* the fitted coefficients, or the exception raised.
calculate_alpha_beta(frame, benchmark) ==
    LET benchmark_returns == PctChange(AdjClose(benchmark))
        X == add_constant(DropFirst(benchmark_returns))
        Y == DailyYields(frame)
    IN  OLSFit(Y, X)


----------------------------------------------------------------------------
(* The menus, the symbol list and what the model lets the user type *)

\* get_user_choice: the main menu.
MainMenu ==
    [a |-> [msg |-> "Display stock data",
            sub |-> [a |-> [msg |-> "Display available stock symbols"],
                     b |-> [msg |-> "Display statistics of a specific stock"]]],
     b |-> [msg |-> "Exit"]]

\* analyze_stock: the analysis menu (no entry has a sub-menu).
AnalysisMenu ==
    [a |-> [msg |-> "Display statistics of the adjusted closing rate"],
     b |-> [msg |-> "Display statistics of the daily yield"],
     c |-> [msg |-> "Calculate the Sharpe metric"],
     d |-> [msg |-> "Plot a graph of the stock's exchange rates"],
     e |-> [msg |-> "Plot a graph of the daily yields"],
     f |-> [msg |-> "Plot a histogram of the stock's exchange rates"],
     g |-> [msg |-> "Plot a histogram of the daily yields"],
     h |-> [msg |-> "End analysis"],
     i |-> [msg |-> "Calculate alpha"],
     j |-> [msg |-> "Calculate beta"]]

\* main: the fixed list of symbols.
symbols == <<"EBAY", "ecl", "Eix", "ew", "ea">>

InList(x, list) == \E i \in 1..Len(list) : list[i] = x

\* Lines the user may type at a menu prompt: every key, and lines that are
\* keys of no menu (a whole path, a capital, an unknown letter).
ChoiceInputs ==
    {"a", "b", "c", "d", "e", "f", "g", "h", "i", "j", "ab", "A", "x"}

\* Symbols the user may type: two of the list, the same in another case,
\* and the benchmark symbol, which is not in the list.
SymbolInputs == {"EBAY", "ea", "ebay", "EA", "SPY"}

\* What the provider may return: up to MaxLen adjusted closing prices, each
\* in 1..MaxPrice; the empty frame is what a failed download yields.
Frames == UNION {[1..n -> 1..MaxPrice] : n \in 0..MaxLen}

\* A printed line: what it is, the symbol formatted into it, the values.
Msg(kind, sym, vals) == [kind |-> kind, symbol |-> sym, vals |-> vals]

NoArr == Series(<<>>)

----------------------------------------------------------------------------
(* The program *)

Init ==
    /\ pc = "main_loop"
    /\ menu_itr = MainMenu
    /\ choice_path = ""
    /\ choice = ""
    /\ symbol = ""
    /\ data = <<>>
    /\ benchmark_data = <<>>
    /\ daily_yields = NoArr
    /\ result = <<>>
    /\ out = <<>>
    /\ exc = "none"

Prompting == pc \in {"main_prompt", "analysis_prompt"}

\* main, top of `while True`: get_user_choice() enters get_choice_path with
\* the main menu, which prints it.  The previous iteration's locals are dead.
MainLoop ==
    /\ pc = "main_loop"
    /\ pc' = "main_prompt"
    /\ menu_itr' = MainMenu
    /\ choice_path' = ""
    /\ choice' = ""
    /\ symbol' = ""
    /\ data' = <<>>
    /\ benchmark_data' = <<>>
    /\ daily_yields' = NoArr
    /\ result' = <<>>
    /\ out' = <<Msg("menu", "", <<>>)>>
    /\ UNCHANGED exc

\* get_choice_path: the line read is not a key of the current level.
InvalidChoice(c) ==
    /\ Prompting
    /\ c \notin DOMAIN menu_itr
    /\ choice' = c
    /\ out' = <<Msg("invalid_option", "", <<>>), Msg("menu", "", <<>>)>>
    /\ UNCHANGED <<pc, menu_itr, choice_path, symbol, data, benchmark_data,
                   daily_yields, result, exc>>

\* get_choice_path: the line read is a key whose entry has a sub-menu.
EnterSubMenu(c) ==
    /\ Prompting
    /\ c \in DOMAIN menu_itr
    /\ "sub" \in DOMAIN menu_itr[c]
    /\ choice' = c
    /\ choice_path' = choice_path \o c
    /\ menu_itr' = menu_itr[c].sub
    /\ out' = <<Msg("menu", "", <<>>)>>
    /\ UNCHANGED <<pc, symbol, data, benchmark_data, daily_yields, result, exc>>

\* Where get_choice_path returns to.
ReturnSite(p) == IF p = "main_prompt" THEN "main_choice" ELSE "fetch"

\* Faulty variant of ChooseLeaf: the returned path holds the last choice
\* only.
ChooseLeafLastOnly(c) ==
    /\ Prompting
    /\ c \in DOMAIN menu_itr
    /\ "sub" \notin DOMAIN menu_itr[c]
    /\ choice' = c
    /\ choice_path' = c
    /\ pc' = ReturnSite(pc)
    /\ out' = <<>>
    /\ UNCHANGED <<menu_itr, symbol, data, benchmark_data, daily_yields,
                   result, exc>>

\* get_choice_path: the line read is a key without a sub-menu; return.
ChooseLeaf(c) ==
    /\ Prompting
    /\ c \in DOMAIN menu_itr
    /\ "sub" \notin DOMAIN menu_itr[c]
    /\ choice' = c
    /\ choice_path' = choice_path \o c
    /\ pc' = ReturnSite(pc)
    /\ out' = <<>>
    /\ UNCHANGED <<menu_itr, symbol, data, benchmark_data, daily_yields,
                   result, exc>>

\* main: dispatch on the choice path returned by get_user_choice.
MainDispatch ==
    /\ pc = "main_choice"
    /\ pc' = IF choice_path = "b" THEN "exited"
             ELSE IF choice_path = "ab" THEN "user_input"
             ELSE "main_loop"
    /\ out' = IF choice_path = "aa"
              THEN <<Msg("available_stocks", "", symbols)>>
              ELSE <<>>
    /\ UNCHANGED <<menu_itr, choice_path, choice, symbol, data,
                   benchmark_data, daily_yields, result, exc>>

\* Faulty variant of Available: the comparison ignores case.
AvailableIgnoringCase(s) ==
    LET upper == [ebay |-> "EBAY", ea |-> "EA", EBAY |-> "EBAY", EA |-> "EA",
                  ecl |-> "ECL", Eix |-> "EIX", ew |-> "EW", SPY |-> "SPY"]
    IN  \E i \in 1..Len(symbols) : upper[symbols[i]] = upper[s]

\* main: `symbol in symbols`.
Available(s) == InList(s, symbols)

\* main: get_user_input(), then the membership check; a listed symbol
\* enters analyze_stock, whose get_choice_path prints the analysis menu.
GetUserInput(s) ==
    /\ pc = "user_input"
    /\ symbol' = s
    /\ IF ~Available(s)
       THEN /\ out' = <<Msg("not_available", s, <<>>)>>
            /\ pc' = "main_loop"
            /\ UNCHANGED <<menu_itr, choice_path, choice>>
       ELSE /\ out' = <<Msg("menu", "", <<>>)>>
            /\ pc' = "analysis_prompt"
            /\ menu_itr' = AnalysisMenu
            /\ choice_path' = ""
            /\ choice' = ""
    /\ UNCHANGED <<data, benchmark_data, daily_yields, result, exc>>

\* analyze_stock: data = fetch_data(symbol, start_date, end_date).
FetchData(d) ==
    /\ pc = "fetch"
    /\ data' = d
    /\ pc' = "handle"
    /\ UNCHANGED <<menu_itr, choice_path, choice, symbol, benchmark_data,
                   daily_yields, result, out, exc>>

\* An exception nobody catches: the interpreter prints the traceback and
\* the program ends.
Raise(e) ==
    /\ pc' = "crashed"
    /\ exc' = e
    /\ out' = <<Msg("traceback", "", <<e>>)>>

\* A handler finished: analyze_stock returns to the main loop.
Finish(msg) ==
    /\ pc' = "main_loop"
    /\ out' = <<msg>>
    /\ UNCHANGED exc


Handling(key) == pc = "handle" /\ choice_path = key

\* handlers['a']: display_closing_summary.
DisplayClosingSummary ==
    /\ Handling("a")
    /\ LET r == get_stats(ToNumpy(AdjClose(data)))
       IN  IF r.exc # "none"
           THEN Raise(r.exc) /\ UNCHANGED result
           ELSE /\ result' = r.stats
                /\ Finish(Msg("closing_stats", symbol, r.stats))
    /\ UNCHANGED <<menu_itr, choice_path, choice, symbol, data,
                   benchmark_data, daily_yields>>

\* handlers['b']: display_daily_yield_stats.
DisplayDailyYieldStats ==
    /\ Handling("b")
    /\ daily_yields' = DailyYields(data)
    /\ LET r == get_stats(DailyYields(data))
       IN  IF r.exc # "none"
           THEN Raise(r.exc) /\ UNCHANGED result
           ELSE /\ result' = r.stats
                /\ Finish(Msg("daily_yield_stats", symbol, r.stats))
    /\ UNCHANGED <<menu_itr, choice_path, choice, symbol, data, benchmark_data>>

\* handlers['c']: calculate_sharpe_metric; s = average / std_dev.
CalculateSharpeMetric ==
    /\ Handling("c")
    /\ daily_yields' = DailyYields(data)
    /\ LET r == get_stats(DailyYields(data))
       IN  IF r.exc # "none"
           THEN Raise(r.exc) /\ UNCHANGED result
           ELSE LET s == FDivRoot(r.stats[1], r.stats[2])
                IN  /\ result' = <<s>>
                    /\ Finish(Msg("sharpe", symbol, <<s>>))
    /\ UNCHANGED <<menu_itr, choice_path, choice, symbol, data, benchmark_data>>

\* handlers['d']: plot_exchange_rates.
PlotExchangeRates ==
    /\ Handling("d")
    /\ Finish(Msg("plot_exchange_rates", symbol, <<>>))
    /\ UNCHANGED <<menu_itr, choice_path, choice, symbol, data,
                   benchmark_data, daily_yields, result>>

\* handlers['e']: plot_daily_yields.
PlotDailyYields ==
    /\ Handling("e")
    /\ daily_yields' = DailyYields(data)
    /\ Finish(Msg("plot_daily_yields", symbol, <<>>))
    /\ UNCHANGED <<menu_itr, choice_path, choice, symbol, data,
                   benchmark_data, result>>

\* handlers['f']: plot_exchange_rates_hist.
PlotExchangeRatesHist ==
    /\ Handling("f")
    /\ Finish(Msg("hist_exchange_rates", symbol, <<>>))
    /\ UNCHANGED <<menu_itr, choice_path, choice, symbol, data,
                   benchmark_data, daily_yields, result>>

\* handlers['g']: plot_daily_yields_hist.
PlotDailyYieldsHist ==
    /\ Handling("g")
    /\ daily_yields' = DailyYields(data)
    /\ Finish(Msg("hist_daily_yields", symbol, <<>>))
    /\ UNCHANGED <<menu_itr, choice_path, choice, symbol, data,
                   benchmark_data, result>>

\* 'h' (End analysis) is in no branch of the dispatch: nothing runs.
EndAnalysis ==
    /\ Handling("h")
    /\ pc' = "main_loop"
    /\ UNCHANGED <<menu_itr, choice_path, choice, symbol, data,
                   benchmark_data, daily_yields, result, out, exc>>

\* analyze_stock: alpha, beta = coeff; 'i' prints alpha, 'j' prints beta.
Reported(key, coeff) ==
    IF key = "i" THEN Msg("alpha", symbol, <<coeff[1]>>)
    ELSE Msg("beta", symbol, <<coeff[2]>>)

\* choice 'i' or 'j': calculate_alpha_beta fetches the benchmark, fits the
\* regression, and analyze_stock unpacks the two coefficients.
AlphaBeta(b) ==
    /\ pc = "handle"
    /\ choice_path \in {"i", "j"}
    /\ benchmark_data' = b
    /\ daily_yields' = DailyYields(data)
    /\ LET r == calculate_alpha_beta(data, b)
       IN  IF r.exc # "none"
           THEN Raise(r.exc) /\ UNCHANGED result
           ELSE IF Len(r.params) # 2
           THEN Raise("ValueError") /\ result' = r.params
           ELSE /\ result' = r.params
                /\ Finish(Reported(choice_path, r.params))
    /\ UNCHANGED <<menu_itr, choice_path, choice, symbol, data>>

Next ==
    \/ MainLoop
    \/ \E c \in ChoiceInputs : InvalidChoice(c)
    \/ \E c \in ChoiceInputs : EnterSubMenu(c)
    \/ \E c \in ChoiceInputs : ChooseLeaf(c)
    \/ MainDispatch
    \/ \E s \in SymbolInputs : GetUserInput(s)
    \/ \E d \in Frames : FetchData(d)
    \/ DisplayClosingSummary
    \/ DisplayDailyYieldStats
    \/ CalculateSharpeMetric
    \/ PlotExchangeRates
    \/ PlotDailyYields
    \/ PlotExchangeRatesHist
    \/ PlotDailyYieldsHist
    \/ EndAnalysis
    \/ \E b \in Frames : AlphaBeta(b)

Spec == Init /\ [][Next]_vars


----------------------------------------------------------------------------
(* Vocabulary of the properties *)

\* The handler chosen by one of `keys` has run: it returned to the main
\* loop or ended the program with an exception.
Ran(keys) == pc \in {"main_loop", "crashed"} /\ choice_path \in keys

Printed(kind) == \E i \in 1..Len(out) : out[i].kind = kind

Prices(frame) == [i \in 1..Len(frame) |-> Num(frame[i], 1)]

\* The returns of a price series, computed directly from the prices.
Returns(frame) ==
    [i \in 1..(IF Len(frame) = 0 THEN 0 ELSE Len(frame) - 1) |->
        Num(frame[i + 1] - frame[i], frame[i])]

AvgOf(v) == FDiv(FSum(v), Num(Len(v), 1))

\* Population variance as E[x^2] - E[x]^2.
PopVar(v) == FSub(AvgOf([i \in 1..Len(v) |-> FMul(v[i], v[i])]),
                  FMul(AvgOf(v), AvgOf(v)))

\* Population covariance as E[xy] - E[x]E[y].
PopCov(u, v) == FSub(AvgOf([i \in 1..Len(u) |-> FMul(u[i], v[i])]),
                     FMul(AvgOf(u), AvgOf(v)))

AllEqual(v) == \A i, j \in 1..Len(v) : v[i] = v[j]

NonNegative(x) == (x.k = "root") \/ (IsNum(x) /\ x.n >= 0) \/ (x.k = "inf" /\ x.n > 0)

----------------------------------------------------------------------------
(* C1 *)

\* C1: every summary the program prints carries the population standard
\* deviation of its non-empty input (sum of squared deviations over N), for
\* the adjusted closing prices and for the daily yields alike, and the
\* Sharpe metric divides by that same population deviation.
C1_StdIsPopulation ==
    /\ (Ran({"a"}) /\ Len(data) >= 1 =>
            /\ Printed("closing_stats")
            /\ result[2] = FSqrt(PopVar(Prices(data))))
    /\ (Ran({"b"}) /\ Len(data) >= 2 =>
            /\ Printed("daily_yield_stats")
            /\ result[2] = FSqrt(PopVar(Returns(data))))
    /\ (Ran({"c"}) /\ Len(data) >= 2 /\ Printed("sharpe") /\ result[1].k = "quot" =>
            Num(result[1].rn, result[1].rd) = PopVar(Returns(data)))

----------------------------------------------------------------------------
(* C2 *)

DerivesYields == {"b", "c", "e", "g", "i", "j"}

\* C2: for prices p0..pn with n >= 1, the daily-yield series a handler
\* derives has exactly n elements, none of them the undefined first return,
\* and element i is p[i+1]/p[i] - 1, in order.
C2_DailyYields ==
    Ran(DerivesYields) /\ Len(data) >= 2 =>
        /\ Len(daily_yields.v) = Len(data) - 1
        /\ \A i \in 1..Len(daily_yields.v) :
              /\ IsNum(daily_yields.v[i])
              /\ daily_yields.v[i].n * data[i]
                     = (data[i + 1] - data[i]) * daily_yields.v[i].d

\* A handler derived the two yields of three prices that rise then fall.
C2_Witness ==
    /\ Ran({"b"})
    /\ Len(data) = 3 /\ data[1] < data[2] /\ data[3] < data[2]
    /\ Len(daily_yields.v) = 2

----------------------------------------------------------------------------
(* C3 *)

\* C3: when the returns have zero standard deviation the Sharpe operation
\* fails with DegenerateInputError and prints no metric.
C3_SharpeRejectsZeroStd ==
    Ran({"c"}) /\ Len(data) >= 2 /\ AllEqual(Returns(data)) =>
        exc = "DegenerateInputError" /\ ~Printed("sharpe")

----------------------------------------------------------------------------
(* C4 *)

\* C4: statistics of an empty sequence fail with EmptyInputError, daily
\* returns of fewer than two prices fail with InsufficientDataError, and
\* in neither case are statistics printed.
C4_LengthPreconditions ==
    /\ (Ran({"a"}) /\ Len(data) = 0 =>
            exc = "EmptyInputError" /\ ~Printed("closing_stats"))
    /\ (Ran({"b", "c"}) /\ Len(data) < 2 =>
            /\ exc = "InsufficientDataError"
            /\ ~Printed("daily_yield_stats") /\ ~Printed("sharpe"))


----------------------------------------------------------------------------
(* C5 *)

\* Slopes tried when looking for an exact line through the returns.
Slopes == {Num(n, d) : n \in -4..4, d \in 1..3}

\* The regression's precondition: return series of the same non-zero
\* length, the benchmark's not constant.
Regressable ==
    /\ Len(data) = Len(benchmark_data)
    /\ Len(data) >= 2
    /\ ~AllEqual(Returns(benchmark_data))

\* C5: under the regression's precondition the coefficients come back as
\* (alpha, beta) with beta = Cov(benchmark, asset) / Var(benchmark) and
\* alpha = mean(asset) - beta * mean(benchmark); returns that lie exactly on
\* a line a + b * benchmark give alpha = a and beta = b; choice 'i' prints
\* alpha and choice 'j' prints beta.
C5_Regression ==
    Ran({"i", "j"}) /\ Regressable =>
        LET X == Returns(benchmark_data)
            Y == Returns(data)
        IN  /\ pc = "main_loop" /\ exc = "none"
            /\ Len(result) = 2
            /\ result[2] = FDiv(PopCov(X, Y), PopVar(X))
            /\ result[1] = FSub(AvgOf(Y), FMul(result[2], AvgOf(X)))
            /\ \A b \in Slopes :
                  LET a == FSub(Y[1], FMul(b, X[1]))
                  IN  (\A i \in 1..Len(X) : Y[i] = FAdd(a, FMul(b, X[i])))
                          => result = <<a, b>>
            /\ out = <<Msg(IF choice_path = "i" THEN "alpha" ELSE "beta", symbol,
                           <<result[IF choice_path = "i" THEN 1 ELSE 2]>>)>>

\* Alpha was printed for a regression whose intercept and slope are both
\* non-zero and different from each other.
C5_Witness ==
    /\ Ran({"i"}) /\ Regressable
    /\ Printed("alpha")
    /\ result[1] # Zero /\ result[2] # Zero /\ result[1] # result[2]

----------------------------------------------------------------------------
(* C6 *)

\* C6: return series of different lengths, or empty ones, make the
\* regression fail with MisalignedSeriesError, a benchmark with zero
\* variance makes it fail with DegenerateInputError, and in neither case is
\* a coefficient printed.
C6_RegressionRejects ==
    LET X == Returns(benchmark_data)
        Y == Returns(data)
    IN  /\ (Ran({"i", "j"}) /\ (Len(X) # Len(Y) \/ Len(Y) = 0) =>
                /\ exc = "MisalignedSeriesError"
                /\ ~Printed("alpha") /\ ~Printed("beta"))
        /\ (Ran({"i", "j"}) /\ Len(X) = Len(Y) /\ Len(Y) > 0 /\ AllEqual(X) =>
                /\ exc = "DegenerateInputError"
                /\ ~Printed("alpha") /\ ~Printed("beta"))

----------------------------------------------------------------------------
(* C7 *)

\* C7: a failed analysis request ends with a message naming its kind of
\* failure (empty input, insufficient data, degenerate input, misaligned
\* series), and no failure shows as an uncaught exception's traceback.
C7_FailuresReported ==
    /\ ~Printed("traceback")
    /\ (Ran({"a"}) /\ Len(data) = 0 => Printed("empty_input"))
    /\ (Ran({"b", "c"}) /\ Len(data) < 2 => Printed("insufficient_data"))
    /\ (Ran({"c"}) /\ Len(data) >= 2 /\ AllEqual(Returns(data)) =>
            Printed("degenerate_input"))
    /\ (Ran({"i", "j"}) /\ Len(data) # Len(benchmark_data) =>
            Printed("misaligned_series"))

----------------------------------------------------------------------------
(* C8 *)

\* The sequence the statistics handler chosen by choice_path summarised.
Summarised == IF choice_path = "a" THEN Prices(data) ELSE Returns(data)

\* C8: for a non-empty input the statistics satisfy maximum >= every
\* element, minimum <= every element, minimum <= average <= maximum and
\* standard deviation >= 0.
C8_StatsBounds ==
    Ran({"a", "b"}) /\ Len(Summarised) >= 1 =>
        /\ Len(result) = 4
        /\ \A i \in 1..Len(Summarised) :
              FLe(Summarised[i], result[3]) /\ FLe(result[4], Summarised[i])
        /\ FLe(result[4], result[1]) /\ FLe(result[1], result[3])
        /\ NonNegative(result[2])


----------------------------------------------------------------------------
(* C9 *)

Returned == pc \in {"main_choice", "fetch"}

\* The path and the level agree: the level is the one the path leads to.
C9_PathLeadsToLevel ==
    /\ pc = "main_prompt" =>
          \/ choice_path = "" /\ menu_itr = MainMenu
          \/ choice_path = "a" /\ menu_itr = MainMenu.a.sub
    /\ pc = "analysis_prompt" => choice_path = "" /\ menu_itr = AnalysisMenu
    /\ pc = "main_choice" => choice_path \in {"aa", "ab", "b"}
    /\ pc = "fetch" => choice_path \in DOMAIN AnalysisMenu

\* One step of a prompt: a line that is no key of the level changes neither
\* path nor level and prompts again; a key is appended to the path; the
\* prompt is left only by a key whose entry has no sub-menu.
C9_PromptStep ==
    Prompting =>
        /\ (choice' \notin DOMAIN menu_itr =>
               /\ UNCHANGED <<choice_path, menu_itr, pc>>
               /\ out'[Len(out')].kind = "menu")
        /\ (choice' \in DOMAIN menu_itr \/ ~UNCHANGED choice_path =>
               /\ choice' \in DOMAIN menu_itr
               /\ choice_path' = choice_path \o choice')
        /\ (Returned' =>
               /\ choice' \in DOMAIN menu_itr
               /\ "sub" \notin DOMAIN menu_itr[choice'])
        /\ (choice' \in DOMAIN menu_itr /\ "sub" \in DOMAIN menu_itr[choice'] =>
               /\ ~Returned'
               /\ menu_itr' = menu_itr[choice'].sub)

\* C9: get_choice_path returns only when a leaf is chosen, the returned
\* path is the concatenation in order of the valid choices made from the
\* root, an invalid line changes neither path nor level and prompts again,
\* and the main menu returns only 'aa', 'ab' or 'b'.
C9_ChoicePath == [](C9_PathLeadsToLevel) /\ [][C9_PromptStep]_vars

\* The main menu returned the two-level path 'ab'.
C9_Witness == pc = "main_choice" /\ choice_path = "ab" /\ choice = "b"

----------------------------------------------------------------------------
(* C10 *)

Listed == {"EBAY", "ecl", "Eix", "ew", "ea"}

InAnalysis == pc \in {"analysis_prompt", "fetch", "handle"}

\* The program has ended normally only by the path 'b'; an analysis is in
\* progress, and data is held, only for a listed symbol.
C10_OnlyListed ==
    /\ pc = "exited" => choice_path = "b"
    /\ InAnalysis => symbol \in Listed
    /\ data # <<>> \/ benchmark_data # <<>> => symbol \in Listed

\* The step that reads the symbol: an unlisted one prints the message,
\* fetches nothing, starts no analysis and goes back to the main menu; the
\* program ends only from the main menu's dispatch.
C10_SymbolStep ==
    /\ (pc = "user_input" /\ symbol' \notin Listed =>
           /\ out' = <<Msg("not_available", symbol', <<>>)>>
           /\ pc' = "main_loop"
           /\ UNCHANGED <<data, benchmark_data, result>>)
    /\ (pc = "user_input" /\ symbol' \in Listed => pc' = "analysis_prompt")
    /\ (pc # "exited" /\ pc' = "exited" => pc = "main_choice" /\ choice_path = "b")
    /\ (~UNCHANGED <<data, benchmark_data>> /\ pc' # "main_prompt" =>
           symbol \in Listed /\ pc \in {"fetch", "handle"})

\* C10: the main loop ends normally only after the path 'b'; fetch and
\* analysis start only for a symbol that is, case-sensitively, in the list;
\* any other symbol prints the not-available message, fetches and analyses
\* nothing, and returns to the main menu.
C10_MainLoop == [](C10_OnlyListed) /\ [][C10_SymbolStep]_vars

\* A listed symbol typed in another case was refused.
C10_Witness ==
    /\ pc = "main_loop" /\ symbol = "ebay"
    /\ Printed("not_available") /\ data = <<>>


====
